---- MODULE Spec2Model ----
(***************************************************************************)
(* Idea2Repo backend (src/backend/main.py): the request validation, the    *)
(* generation event stream of generate_repo, the two completion clients    *)
(* query_groq_complete / query_groq_stream and extract_json_from_response. *)
(* The frontend consumer stream_response (src/frontend/frontend.py) reads   *)
(* the response body of the event stream.                                  *)
(*                                                                         *)
(* Texts are sequences of one-character strings, so that strip, replace,   *)
(* the brace regex, slicing and the JSON grammar act on characters as the  *)
(* Python code does.  Python values obtained from json.loads are records   *)
(* [t, s, m]: t the type, s the characters of a str or of a number         *)
(* literal, m the members of a list or dict in order, each [k, v].         *)
(***************************************************************************)
EXTENDS Integers, Sequences, FiniteSets, TLC

VARIABLES
    pc,            \* position of the request in generate_repo / event_stream
    prompt,        \* data.prompt as received in the request body
    user_prompt,   \* data.prompt.strip()
    events,        \* the events yielded by event_stream so far, in order
    calls,         \* the outbound provider calls issued so far, in order
    first_error,   \* how the buffered attempt failed ("none" while it has not)
    stream_lines,  \* the lines the provider sent to query_groq_stream
    full_response, \* the completion text (a Python value)
    parsed_json,   \* result of extract_json_from_response (a Python value)
    exc,           \* class of the exception propagating in event_stream
    exc_text,      \* str(e) of that exception
    log,           \* the records the except clauses of event_stream log
    fe_pc,         \* position of the frontend in stream_response
    shown,         \* what the frontend has displayed (st.info, st.error)
    result         \* what stream_response returned

vars == <<pc, prompt, user_prompt, events, calls, first_error, stream_lines,
          full_response, parsed_json, exc, exc_text, log,
          fe_pc, shown, result>>

---------------------------------------------------------------------------
(* Characters and Python str methods *)

Ws == {" ", "\n", "\t", "\r"}

Digits == {"0", "1", "2", "3", "4", "5", "6", "7", "8", "9"}

\* n copies of the character c
Rep(c, n) == [i \in 1..n |-> c]

\* least index >= i of s whose character is in set; Len(s)+1 when there is none
NextIn(s, i, set) ==
    IF \E p \in i..Len(s) : s[p] \in set
    THEN CHOOSE p \in i..Len(s) : s[p] \in set /\ \A q \in i..(p-1) : s[q] \notin set
    ELSE Len(s) + 1

\* greatest index of s whose character is in set; 0 when there is none
LastIn(s, set) ==
    IF \E p \in 1..Len(s) : s[p] \in set
    THEN CHOOSE p \in 1..Len(s) : s[p] \in set /\ \A q \in (p+1)..Len(s) : s[q] \notin set
    ELSE 0

\* least index >= i of s whose character is not in set; Len(s)+1 when none
NextNotIn(s, i, set) ==
    IF \E p \in i..Len(s) : s[p] \notin set
    THEN CHOOSE p \in i..Len(s) : s[p] \notin set /\ \A q \in i..(p-1) : s[q] \in set
    ELSE Len(s) + 1

\* str.strip()
Strip(s) ==
    LET i == NextNotIn(s, 1, Ws)
    IN  IF i > Len(s) THEN <<>>
        ELSE SubSeq(s, i, CHOOSE j \in i..Len(s) :
                              s[j] \notin Ws /\ \A q \in (j+1)..Len(s) : s[q] \in Ws)

\* str.startswith(p)
StartsWith(s, p) == Len(s) >= Len(p) /\ SubSeq(s, 1, Len(p)) = p

\* s[i:i+len(p)] == p
MatchAt(s, i, p) == i + Len(p) - 1 <= Len(s) /\ SubSeq(s, i, i + Len(p) - 1) = p

\* str.find(p, i): least index >= i where p occurs in s; 0 when it does not
Find(s, p, i) ==
    IF \E q \in i..(Len(s) - Len(p) + 1) : MatchAt(s, q, p)
    THEN CHOOSE q \in i..(Len(s) - Len(p) + 1) :
             MatchAt(s, q, p) /\ \A r \in i..(q-1) : ~MatchAt(s, r, p)
    ELSE 0

\* p in s, for two str
IsSubstring(p, s) == Len(p) = 0 \/ Find(s, p, 1) # 0

\* s[:n]
Prefix(s, n) == SubSeq(s, 1, IF Len(s) < n THEN Len(s) ELSE n)

\* str.replace(old, new): the non-overlapping occurrences, left to right
RECURSIVE ReplaceFrom(_, _, _, _)
ReplaceFrom(s, old, new, i) ==
    LET q == Find(s, old, i)
    IN  IF q = 0 THEN SubSeq(s, i, Len(s))
        ELSE SubSeq(s, i, q - 1) \o new \o ReplaceFrom(s, old, new, q + Len(old))

Replace(s, old, new) == ReplaceFrom(s, old, new, 1)

---------------------------------------------------------------------------
(* Python values *)

\* a local variable that has not been assigned
Unset == [t |-> "unset", s |-> <<>>, m |-> <<>>]

JNull == [t |-> "null", s |-> <<>>, m |-> <<>>]
JTrue == [t |-> "true", s |-> <<>>, m |-> <<>>]
JFalse == [t |-> "false", s |-> <<>>, m |-> <<>>]
JNum(lit) == [t |-> "num", s |-> lit, m |-> <<>>]
JStr(chars) == [t |-> "str", s |-> chars, m |-> <<>>]
JArr(elems) == [t |-> "arr", s |-> <<>>,
                m |-> [i \in 1..Len(elems) |-> [k |-> <<>>, v |-> elems[i]]]]
JObj(members) == [t |-> "obj", s |-> <<>>, m |-> members]

\* dict[k] = v: a key already present keeps its place and takes the new value
DictPut(members, key, val) ==
    IF \E i \in 1..Len(members) : members[i].k = key
    THEN [i \in 1..Len(members) |->
             IF members[i].k = key THEN [k |-> key, v |-> val] ELSE members[i]]
    ELSE Append(members, [k |-> key, v |-> val])

HasKey(d, key) == \E i \in 1..Len(d.m) : d.m[i].k = key

DictGet(d, key) == d.m[CHOOSE i \in 1..Len(d.m) : d.m[i].k = key].v

---------------------------------------------------------------------------
(* Literals of the program *)

\* the character U+0060, which a TLA+ string cannot hold
Backtick == "backtick"

K_repository_name ==
    <<"r", "e", "p", "o", "s", "i", "t", "o", "r", "y", "_", "n", "a", "m",
      "e">>

K_description == <<"d", "e", "s", "c", "r", "i", "p", "t", "i", "o", "n">>

K_readme_content ==
    <<"r", "e", "a", "d", "m", "e", "_", "c", "o", "n", "t", "e", "n", "t">>

K_raw_response ==
    <<"r", "a", "w", "_", "r", "e", "s", "p", "o", "n", "s", "e">>

K_note == <<"n", "o", "t", "e">>

K_choices == <<"c", "h", "o", "i", "c", "e", "s">>

K_message == <<"m", "e", "s", "s", "a", "g", "e">>

K_delta == <<"d", "e", "l", "t", "a">>

K_content == <<"c", "o", "n", "t", "e", "n", "t">>

\* the keys event_stream requires of the parsed object, in the order it tests them
RequiredKeys == <<K_repository_name, K_description, K_readme_content>>

Fence == <<Backtick, Backtick, Backtick>>

FenceJson == Fence \o <<"j", "s", "o", "n">>

DataPrefix == <<"d", "a", "t", "a", ":", " ">>

DoneLine == <<"d", "a", "t", "a", ":", " ", "[", "D", "O", "N", "E", "]">>

FallbackName ==
    <<"a", "i", "-", "g", "e", "n", "e", "r", "a", "t", "e", "d", "-", "p",
      "r", "o", "j", "e", "c", "t">>

FallbackDescription ==
    <<"A", "I", "-", "g", "e", "n", "e", "r", "a", "t", "e", "d", " ", "p",
      "r", "o", "j", "e", "c", "t", " ", "b", "a", "s", "e", "d", " ", "o",
      "n", " ", "u", "s", "e", "r", " ", "r", "e", "q", "u", "i", "r", "e",
      "m", "e", "n", "t", "s">>

\* the fallback README up to the prompt (a backslash and an n where the
\* f-string writes \\n)
FallbackReadmeHead ==
    <<"#", " ", "A", "I", " ", "G", "e", "n", "e", "r", "a", "t", "e", "d",
      " ", "P", "r", "o", "j", "e", "c", "t", " ", "U+1F680", "\\", "n",
      "\\", "n", "T", "h", "i", "s", " ", "p", "r", "o", "j", "e", "c", "t",
      " ", "w", "a", "s", " ", "g", "e", "n", "e", "r", "a", "t", "e", "d",
      " ", "b", "a", "s", "e", "d", " ", "o", "n", ":", " ">>

FallbackReadmeTail ==
    <<"\\", "n", "\\", "n", "#", "#", " ", "F", "e", "a", "t", "u", "r", "e",
      "s", "\\", "n", "\\", "n", "-", " ", "A", "I", "-", "p", "o", "w", "e",
      "r", "e", "d", " ", "f", "u", "n", "c", "t", "i", "o", "n", "a", "l",
      "i", "t", "y", "\\", "n", "-", " ", "M", "o", "d", "e", "r", "n", " ",
      "t", "e", "c", "h", " ", "s", "t", "a", "c", "k", "\\", "n", "-", " ",
      "E", "a", "s", "y", " ", "t", "o", " ", "c", "u", "s", "t", "o", "m",
      "i", "z", "e", "\\", "n", "\\", "n", "#", "#", " ", "G", "e", "t", "t",
      "i", "n", "g", " ", "S", "t", "a", "r", "t", "e", "d", "\\", "n", "\\",
      "n", Backtick, Backtick, Backtick, "b", "a", "s", "h", "\\", "n", "g",
      "i", "t", " ", "c", "l", "o", "n", "e", " ", "<", "r", "e", "p", "o",
      "-", "u", "r", "l", ">", "\\", "n", "c", "d", " ", "p", "r", "o", "j",
      "e", "c", "t", "\\", "n", "n", "p", "m", " ", "i", "n", "s", "t", "a",
      "l", "l", "\\", "n", "n", "p", "m", " ", "s", "t", "a", "r", "t", "\\",
      "n", Backtick, Backtick, Backtick, "\\", "n", "\\", "n", "#", "#", " ",
      "L", "i", "c", "e", "n", "s", "e", "\\", "n", "\\", "n", "M", "I", "T",
      " ", "L", "i", "c", "e", "n", "s", "e">>

FallbackNote ==
    <<"F", "a", "l", "l", "b", "a", "c", "k", " ", "r", "e", "s", "p", "o",
      "n", "s", "e", " ", "d", "u", "e", " ", "t", "o", " ", "J", "S", "O",
      "N", " ", "p", "a", "r", "s", "i", "n", "g", " ", "i", "s", "s", "u",
      "e", "s">>

\* the length ceilings of the cleaned fields and of the raw preview
NameMax == 50

DescriptionMax == 200

RawPreviewMax == 500

\* RepoRequest.prompt: min_length and max_length
PromptMin == 5

PromptMax == 500

---------------------------------------------------------------------------
(* json.loads: the JSON grammar on characters (integers for numbers; the   *)
(* escapes \" \\ \/ \n \t \r).  A parse step returns [ok, v, i]: whether it *)
(* succeeded, the value, and the index after it.                           *)

JsonWs == {" ", "\t", "\n", "\r"}

\* characters below 0x20, which a JSON string may not hold unescaped
ControlChars == {"\n", "\t", "\r"}

EscapeChars == {"\"", "\\", "/", "n", "t", "r"}

Unescape(c) ==
    CASE c = "n" -> "\n"
      [] c = "t" -> "\t"
      [] c = "r" -> "\r"
      [] OTHER -> c

HexDigits == Digits \cup {"a", "b", "c", "d", "e", "f", "A", "B", "C", "D", "E", "F"}

UpperHex(c) ==
    CASE c = "a" -> "A" [] c = "b" -> "B" [] c = "c" -> "C"
      [] c = "d" -> "D" [] c = "e" -> "E" [] c = "f" -> "F"
      [] OTHER -> c

\* the character of the escape \uXXXX, h its four hex digits; a character
\* the model does not write literally is named by its code point
CodePoint(h) ==
    LET u == <<UpperHex(h[1]), UpperHex(h[2]), UpperHex(h[3]), UpperHex(h[4])>>
    IN  CASE u = <<"0", "0", "7", "B">> -> "{"
          [] u = <<"0", "0", "7", "D">> -> "}"
          [] u = <<"0", "0", "2", "0">> -> " "
          [] OTHER -> "U+" \o u[1] \o u[2] \o u[3] \o u[4]

\* the escapes of U+1F680 as json.dumps writes it, a surrogate pair
RocketEscape == <<"\\", "u", "d", "8", "3", "d", "\\", "u", "d", "e", "8", "0">>

\* sys.getrecursionlimit(): the scanner enters one recursive call for each
\* list or dict it descends into and raises RecursionError at the limit
RecursionLimit == 1000

\* json.JSONDecodeError
DecodeError == [ok |-> FALSE, v |-> JNull, i |-> 0, err |-> "JSONDecodeError"]

\* RecursionError
TooDeep == [ok |-> FALSE, v |-> JNull, i |-> 0, err |-> "RecursionError"]

Parsed(v, i) == [ok |-> TRUE, v |-> v, i |-> i, err |-> "none"]

\* the string whose opening quote precedes index i; acc is the decoded part
RECURSIVE ScanString(_, _, _)
ScanString(s, i, acc) ==
    LET p == NextIn(s, i, {"\"", "\\"} \cup ControlChars)
    IN  IF p > Len(s) THEN DecodeError
        ELSE IF s[p] = "\"" THEN Parsed(JStr(acc \o SubSeq(s, i, p - 1)), p + 1)
        ELSE IF s[p] = "\\" /\ p + 1 <= Len(s) /\ s[p + 1] \in EscapeChars
             THEN ScanString(s, p + 2,
                             acc \o SubSeq(s, i, p - 1) \o <<Unescape(s[p + 1])>>)
        ELSE IF MatchAt(s, p, RocketEscape)
             THEN ScanString(s, p + Len(RocketEscape),
                             acc \o SubSeq(s, i, p - 1) \o <<"U+1F680">>)
        ELSE IF /\ s[p] = "\\" /\ p + 5 <= Len(s) /\ s[p + 1] = "u"
                /\ \A k \in (p + 2)..(p + 5) : s[k] \in HexDigits
             THEN ScanString(s, p + 6,
                             acc \o SubSeq(s, i, p - 1)
                                 \o <<CodePoint(SubSeq(s, p + 2, p + 5))>>)
        ELSE DecodeError

\* index after the integer literal that starts at i; 0 when there is none
NumberEnd(s, i) ==
    LET d == IF i <= Len(s) /\ s[i] = "-" THEN i + 1 ELSE i
    IN  IF d > Len(s) \/ s[d] \notin Digits THEN 0
        ELSE IF s[d] = "0" THEN d + 1
        ELSE NextNotIn(s, d, Digits)

RECURSIVE ParseValue(_, _, _)
RECURSIVE ParseMembers(_, _, _, _)
RECURSIVE ParseElements(_, _, _, _)

\* the members of a dict, from the index i where a key is expected; depth
\* is the number of lists and dicts entered
ParseMembers(s, i, acc, depth) ==
    IF i > Len(s) \/ s[i] # "\"" THEN DecodeError
    ELSE
      LET key == ScanString(s, i + 1, <<>>)
      IN  IF ~key.ok THEN DecodeError
          ELSE
            LET c == NextNotIn(s, key.i, JsonWs)
            IN  IF c > Len(s) \/ s[c] # ":" THEN DecodeError
                ELSE
                  LET val == ParseValue(s, NextNotIn(s, c + 1, JsonWs), depth)
                  IN  IF ~val.ok THEN val
                      ELSE
                        LET e == NextNotIn(s, val.i, JsonWs)
                            acc2 == DictPut(acc, key.v.s, val.v)
                        IN  IF e > Len(s) THEN DecodeError
                            ELSE IF s[e] = "}" THEN Parsed(JObj(acc2), e + 1)
                            ELSE IF s[e] = ","
                                 THEN ParseMembers(s, NextNotIn(s, e + 1, JsonWs),
                                                   acc2, depth)
                            ELSE DecodeError

\* the elements of a list, from the index i where a value is expected
ParseElements(s, i, acc, depth) ==
    LET val == ParseValue(s, i, depth)
    IN  IF ~val.ok THEN val
        ELSE
          LET e == NextNotIn(s, val.i, JsonWs)
              acc2 == Append(acc, val.v)
          IN  IF e > Len(s) THEN DecodeError
              ELSE IF s[e] = "]" THEN Parsed(JArr(acc2), e + 1)
              ELSE IF s[e] = ","
                   THEN ParseElements(s, NextNotIn(s, e + 1, JsonWs), acc2, depth)
              ELSE DecodeError

\* the value that starts at index i.  A run of [ is a descent of as many
\* lists, whatever follows it.
ParseValue(s, i, depth) ==
    IF i > Len(s) THEN DecodeError
    ELSE IF s[i] = "\"" THEN ScanString(s, i + 1, <<>>)
    ELSE IF s[i] = "{"
         THEN LET j == NextNotIn(s, i + 1, JsonWs)
              IN  IF depth + 1 >= RecursionLimit THEN TooDeep
                  ELSE IF j <= Len(s) /\ s[j] = "}" THEN Parsed(JObj(<<>>), j + 1)
                  ELSE ParseMembers(s, j, <<>>, depth + 1)
    ELSE IF s[i] = "["
         THEN LET j == NextNotIn(s, i + 1, JsonWs)
              IN  IF depth + (NextNotIn(s, i, {"["}) - i) >= RecursionLimit THEN TooDeep
                  ELSE IF j <= Len(s) /\ s[j] = "]" THEN Parsed(JArr(<<>>), j + 1)
                  ELSE ParseElements(s, j, <<>>, depth + 1)
    ELSE IF MatchAt(s, i, <<"n", "u", "l", "l">>) THEN Parsed(JNull, i + 4)
    ELSE IF MatchAt(s, i, <<"t", "r", "u", "e">>) THEN Parsed(JTrue, i + 4)
    ELSE IF MatchAt(s, i, <<"f", "a", "l", "s", "e">>) THEN Parsed(JFalse, i + 5)
    ELSE LET e == NumberEnd(s, i)
         IN  IF e = 0 THEN DecodeError ELSE Parsed(JNum(SubSeq(s, i, e - 1)), e)

\* json.loads(s): [ok, v, err], err the exception it raises when ok is FALSE
JsonLoads(s) ==
    LET r == ParseValue(s, NextNotIn(s, 1, JsonWs), 0)
    IN  IF ~r.ok THEN [ok |-> FALSE, v |-> JNull, err |-> r.err]
        ELSE IF NextNotIn(s, r.i, JsonWs) > Len(s)
        THEN [ok |-> TRUE, v |-> r.v, err |-> "none"]
        ELSE [ok |-> FALSE, v |-> JNull, err |-> "JSONDecodeError"]

---------------------------------------------------------------------------
(* json.dumps (default separators) *)

\* the body of a JSON string literal for the characters of s from index i
RECURSIVE EscapeFrom(_, _)
EscapeFrom(s, i) ==
    LET p == NextIn(s, i, {"\"", "\\"} \cup ControlChars)
    IN  IF p > Len(s) THEN SubSeq(s, i, Len(s))
        ELSE SubSeq(s, i, p - 1)
             \o <<"\\", CASE s[p] = "\n" -> "n"
                          [] s[p] = "\t" -> "t"
                          [] s[p] = "\r" -> "r"
                          [] OTHER -> s[p]>>
             \o EscapeFrom(s, p + 1)

\* a str written between quotes with no escape
Quoted_NoEscape(s) == <<"\"">> \o s \o <<"\"">>

Quoted(s) == <<"\"">> \o EscapeFrom(s, 1) \o <<"\"">>

RECURSIVE JsonDumps(_)
RECURSIVE DumpsItems(_, _, _)

\* the members of v from index i, joined by ", "
DumpsItems(v, i, acc) ==
    IF i > Len(v.m) THEN acc
    ELSE DumpsItems(v, i + 1,
             acc \o (IF i > 1 THEN <<",", " ">> ELSE <<>>)
                 \o (IF v.t = "obj" THEN Quoted(v.m[i].k) \o <<":", " ">> ELSE <<>>)
                 \o JsonDumps(v.m[i].v))

JsonDumps(v) ==
    CASE v.t = "null" -> <<"n", "u", "l", "l">>
      [] v.t = "true" -> <<"t", "r", "u", "e">>
      [] v.t = "false" -> <<"f", "a", "l", "s", "e">>
      [] v.t = "num" -> v.s
      [] v.t = "str" -> Quoted(v.s)
      [] v.t = "arr" -> <<"[">> \o DumpsItems(v, 1, <<>>) \o <<"]">>
      [] v.t = "obj" -> <<"{">> \o DumpsItems(v, 1, <<>>) \o <<"}">>

---------------------------------------------------------------------------
(* Python operations on values.  An operation that may raise returns       *)
(* [exc, v]: exc is "none" or the class of the exception it raises.        *)

Return(v) == [exc |-> "none", v |-> v]

Raise(e) == [exc |-> e, v |-> JNull]

\* bool(v)
Truthy(v) ==
    CASE v.t \in {"null", "false"} -> FALSE
      [] v.t = "true" -> TRUE
      [] v.t = "num" -> v.s \notin {<<"0">>, <<"-", "0">>}
      [] v.t = "str" -> Len(v.s) > 0
      [] OTHER -> Len(v.m) > 0

\* key in v, for a str key: TypeError on None, bool and int
In(key, v) ==
    CASE v.t = "obj" -> Return(HasKey(v, key))
      [] v.t = "arr" -> Return(\E i \in 1..Len(v.m) :
                                   v.m[i].v.t = "str" /\ v.m[i].v.s = key)
      [] v.t = "str" -> Return(IsSubstring(key, v.s))
      [] OTHER -> Raise("Exception")

\* v[key], for a str key: KeyError or TypeError unless v is a dict holding it
GetItem(v, key) ==
    IF v.t = "obj" /\ HasKey(v, key) THEN Return(DictGet(v, key))
    ELSE Raise("Exception")

\* v[0]: IndexError, KeyError or TypeError unless v is a non-empty list or str
GetFirst(v) ==
    IF v.t = "arr" /\ Len(v.m) > 0 THEN Return(v.m[1].v)
    ELSE IF v.t = "str" /\ Len(v.s) > 0 THEN Return(JStr(<<v.s[1]>>))
    ELSE Raise("Exception")

\* len(v): TypeError on None, bool and int
PyLen(v) ==
    CASE v.t = "str" -> Return(Len(v.s))
      [] v.t \in {"arr", "obj"} -> Return(Len(v.m))
      [] OTHER -> Raise("Exception")

\* v.get(key, default): AttributeError unless v is a dict
DictGetOr(v, key, default) ==
    IF v.t # "obj" THEN Raise("Exception")
    ELSE IF HasKey(v, key) THEN Return(DictGet(v, key))
    ELSE Return(default)

\* repr(v) and str(v); the repr of a str is written with single quotes
RECURSIVE PyRepr(_)
RECURSIVE ReprItems(_, _, _)

ReprItems(v, i, acc) ==
    IF i > Len(v.m) THEN acc
    ELSE ReprItems(v, i + 1,
             acc \o (IF i > 1 THEN <<",", " ">> ELSE <<>>)
                 \o (IF v.t = "obj"
                     THEN <<"'">> \o v.m[i].k \o <<"'", ":", " ">>
                     ELSE <<>>)
                 \o PyRepr(v.m[i].v))

PyRepr(v) ==
    CASE v.t = "null" -> <<"N", "o", "n", "e">>
      [] v.t = "true" -> <<"T", "r", "u", "e">>
      [] v.t = "false" -> <<"F", "a", "l", "s", "e">>
      [] v.t = "num" -> IF v.s = <<"-", "0">> THEN <<"0">> ELSE v.s
      [] v.t = "str" -> <<"'">> \o v.s \o <<"'">>
      [] v.t = "arr" -> <<"[">> \o ReprItems(v, 1, <<>>) \o <<"]">>
      [] v.t = "obj" -> <<"{">> \o ReprItems(v, 1, <<>>) \o <<"}">>

PyStr(v) == IF v.t = "str" THEN v.s ELSE PyRepr(v)

---------------------------------------------------------------------------
(* extract_json_from_response *)

\* text after the removal of the markdown fences (lines 153-156)
StripFences(text) ==
    IF StartsWith(text, FenceJson)
    THEN Replace(Replace(text, FenceJson, <<>>), Fence, <<>>)
    ELSE IF StartsWith(text, Fence) THEN Replace(text, Fence, <<>>)
    ELSE text

\* re.search(r'\{.*\}', text, re.DOTALL): from the first { to the last }
\* after it, stripped; <<>> when there is no match
BraceSpan(text) ==
    LET i == NextIn(text, 1, {"{"})
        j == LastIn(text, {"}"})
    IN  IF i <= Len(text) /\ j > i THEN Strip(SubSeq(text, i, j)) ELSE <<>>

\* json_str.replace('\n', '\\n').replace('\t', '\\t')
RepairSpan(json_str) ==
    Replace(Replace(json_str, <<"\n">>, <<"\\", "n">>), <<"\t">>, <<"\\", "t">>)

\* lines 175-180: json.loads(text), None when it raises JSONDecodeError; any
\* other exception of json.loads is not caught
DirectResult(direct) ==
    IF direct.ok THEN Return(direct.v)
    ELSE IF direct.err # "JSONDecodeError" THEN Raise("Exception")
    ELSE Return(JNull)

ParseDirect(text) == DirectResult(JsonLoads(text))

\* lines 169-172: the result of the parse of the repaired span
TryRepair(text, repaired) ==
    IF repaired.ok THEN Return(repaired.v)
    ELSE IF repaired.err # "JSONDecodeError" THEN Raise("Exception")
    ELSE ParseDirect(text)

\* lines 163-168: the result of the parse of the span
TryBrace(text, json_str, first) ==
    IF first.ok THEN Return(first.v)
    ELSE IF first.err # "JSONDecodeError" THEN Raise("Exception")
    ELSE TryRepair(text, JsonLoads(RepairSpan(json_str)))

\* lines 160-161: json_str is <<>> when the regex has no match
ExtractSpan(text, json_str) ==
    IF json_str = <<>> THEN ParseDirect(text)
    ELSE TryBrace(text, json_str, JsonLoads(json_str))

ExtractFrom(text) == ExtractSpan(text, BraceSpan(text))

\* text is the value passed in: text.strip() raises AttributeError unless it
\* is a str
extract_json_from_response(text) ==
    IF text.t # "str" THEN Raise("Exception")
    ELSE ExtractFrom(StripFences(Strip(text.s)))

---------------------------------------------------------------------------
(* query_groq_stream: the loop over response.iter_lines().  One iteration  *)
(* on a received line returns [exc, brk, v]: the exception it raises,      *)
(* whether it leaves the loop, and full_content after it.                  *)

SkipLine(full_content) == [exc |-> "none", brk |-> FALSE, v |-> full_content]

RaiseInLine(full_content) == [exc |-> "Exception", brk |-> FALSE, v |-> full_content]

\* line 240: full_content += delta['content']
AddContent(full_content, content) ==
    IF content.exc # "none" \/ content.v.t # "str" THEN RaiseInLine(full_content)
    ELSE [exc |-> "none", brk |-> FALSE, v |-> full_content \o content.v.s]

\* line 239: if 'content' in delta
TestContent(full_content, delta, has) ==
    IF has.exc # "none" THEN RaiseInLine(full_content)
    ELSE IF ~has.v THEN SkipLine(full_content)
    ELSE AddContent(full_content, GetItem(delta, K_content))

\* line 238: delta = data['choices'][0].get('delta', {})
TakeDelta(full_content, delta) ==
    IF delta.exc # "none" THEN RaiseInLine(full_content)
    ELSE TestContent(full_content, delta.v, In(K_content, delta.v))

TakeFirstChoice(full_content, first) ==
    IF first.exc # "none" THEN RaiseInLine(full_content)
    ELSE TakeDelta(full_content, DictGetOr(first.v, K_delta, JObj(<<>>)))

\* line 237: len(data['choices']) > 0
TestChoicesLen(full_content, choices, n) ==
    IF n.exc # "none" THEN RaiseInLine(full_content)
    ELSE IF n.v = 0 THEN SkipLine(full_content)
    ELSE TakeFirstChoice(full_content, GetFirst(choices))

TakeChoices(full_content, choices) ==
    IF choices.exc # "none" THEN RaiseInLine(full_content)
    ELSE TestChoicesLen(full_content, choices.v, PyLen(choices.v))

\* line 237: 'choices' in data
TestChoices(full_content, data, has) ==
    IF has.exc # "none" THEN RaiseInLine(full_content)
    ELSE IF ~has.v THEN SkipLine(full_content)
    ELSE TakeChoices(full_content, GetItem(data, K_choices))

\* lines 235-242: data is the result of json.loads(line[6:])
TakeData(full_content, data) ==
    IF ~data.ok /\ data.err = "JSONDecodeError" THEN SkipLine(full_content)
    ELSE IF ~data.ok THEN RaiseInLine(full_content)
    ELSE TestChoices(full_content, data.v, In(K_choices, data.v))

\* lines 230-242
StreamLine(full_content, line) ==
    IF line = <<>> THEN SkipLine(full_content)
    ELSE IF ~StartsWith(line, DataPrefix) THEN SkipLine(full_content)
    ELSE IF Strip(line) = DoneLine
         THEN [exc |-> "none", brk |-> TRUE, v |-> full_content]
    ELSE TakeData(full_content,
                  JsonLoads(SubSeq(line, Len(DataPrefix) + 1, Len(line))))

RECURSIVE StreamLoop(_, _, _)

\* the loop without the break at the terminator line
StreamStep_NoBreak(lines, i, r) ==
    IF r.exc # "none" THEN Raise(r.exc)
    ELSE StreamLoop(lines, i + 1, r.v)

\* r is the outcome of the iteration on lines[i]
StreamStep(lines, i, r) ==
    IF r.exc # "none" THEN Raise(r.exc)
    ELSE IF r.brk THEN Return(JStr(r.v))
    ELSE StreamLoop(lines, i + 1, r.v)

\* the loop from line i on (lines 228-244)
StreamLoop(lines, i, full_content) ==
    IF i > Len(lines) THEN Return(JStr(full_content))
    ELSE StreamStep(lines, i, StreamLine(full_content, lines[i]))

\* the value query_groq_stream returns, or the exception it raises, once the
\* provider has answered with these lines
query_groq_stream(lines) == StreamLoop(lines, 1, <<>>)

---------------------------------------------------------------------------
(* The inputs: request bodies, provider answers *)

\* spaces around a padded prompt
PadLen == 4

\* characters by which a long value, text or prompt exceeds its ceiling
Excess == 1

\* most lines the provider sends in one streamed answer
MaxLines == 2

\* lead spaces, n times "x", trail spaces
PromptOf(lead, n, trail) == Rep(" ", lead) \o Rep("x", n) \o Rep(" ", trail)

Prompts ==
    { PromptOf(0, PromptMin - 1, 0),
      PromptOf(0, PromptMin, 0),
      PromptOf(PadLen, 1, 0),
      PromptOf(1, PromptMin, PadLen),
      PromptOf(0, PromptMax, 0),
      PromptOf(0, PromptMax + Excess, 0),
      PromptOf(1, PromptMax, PadLen) }

Artifact(n, d, r) ==
    JObj(<<[k |-> K_repository_name, v |-> n],
           [k |-> K_description, v |-> d],
           [k |-> K_readme_content, v |-> r]>>)

\* the object of the spec's scenario C
ObjPlain == Artifact(JStr(<<"f", "o", "o">>), JStr(<<"d">>), JStr(<<"#", " ", "R">>))

\* a README that holds a code fence
ObjFence ==
    Artifact(JStr(<<"f", "o", "o">>), JStr(<<"d">>),
             JStr(Fence \o <<"s", "h", "\n", "l", "s", "\n">> \o Fence))

\* a README that holds braces
ObjBraces ==
    Artifact(JStr(<<"f", "o", "o">>), JStr(<<"d">>), JStr(<<"}", " ", "{", "x">>))

\* values that are not str
ObjTypes == Artifact(JNum(<<"5">>), JNull, JArr(<<JStr(<<"a">>), JTrue>>))

\* values over the ceilings, with surrounding whitespace
ObjLong ==
    Artifact(JStr(<<" ">> \o Rep("n", NameMax + Excess) \o <<" ">>),
             JStr(<<"\n">> \o Rep("d", DescriptionMax + Excess)),
             JStr(<<" ", "r", "\t">>))

\* a required key is missing
ObjMissing ==
    JObj(<<[k |-> K_repository_name, v |-> JStr(<<"f", "o", "o">>)],
           [k |-> K_description, v |-> JStr(<<"d">>)]>>)

ObjEmpty == JObj(<<>>)

Objects == {ObjPlain, ObjFence, ObjBraces, ObjTypes, ObjLong, ObjMissing, ObjEmpty}

\* how the model wraps the object it answers with
FenceWrappers == {"plain", "fence_json", "fence", "space", "space_fence"}

Wrappers == FenceWrappers \cup {"prose", "raw_newline"}

Wrap(w, body) ==
    CASE w = "plain" -> body
      [] w = "fence_json" -> FenceJson \o <<"\n">> \o body \o <<"\n">> \o Fence
      [] w = "fence" -> Fence \o <<"\n">> \o body \o <<"\n">> \o Fence
      [] w = "space" -> <<" ", "\n">> \o body \o <<"\n", " ">>
      [] w = "space_fence" -> <<"\n">> \o FenceJson \o <<"\n">> \o body
                              \o <<"\n">> \o Fence \o <<"\n">>
      [] w = "prose" -> <<"H", "e", "r", "e", ":", " ">> \o body \o <<" ", "o", "k">>
      [] w = "raw_newline" -> Replace(body, <<"\\", "n">>, <<"\n">>)

\* texts that are no object
OtherTexts ==
    { <<>>,
      <<"h", "e", "l", "l", "o">>,
      <<"{", "o", "o", "p", "s", "}">>,
      <<"5">>,
      <<"0">>,
      <<"n", "u", "l", "l">>,
      <<"t", "r", "u", "e">>,
      <<"\"", "a", "b", "c", "\"">>,
      <<"[", "1", "]">>,
      JsonDumps(JStr(K_repository_name \o K_description \o K_readme_content)),
      JsonDumps(JArr(<<JStr(K_repository_name), JStr(K_description),
                       JStr(K_readme_content)>>)),
      JsonDumps(JArr(<<ObjEmpty, ObjEmpty>>)),
      JsonDumps(ObjPlain) \o <<" ", "}">>,
      <<"{", "\n">> \o Quoted(<<"a">>) \o <<":", " ">> \o <<"\"", "x", "\n", "y", "\"">>
          \o <<"\n", "}">>,
      Rep("a", RawPreviewMax + Excess),
      Rep("[", RecursionLimit) }

\* an object written with escapes: {"a": "q\"\\"}, the value q"\
EscapedText ==
    <<"{", "\"", "a", "\"", ":", " ", "\"", "q", "\\", "\"", "\\", "\\", "\"", "}">>

\* a str written with unicode escapes: "\u007b\u007d", the value {}
EscapedBraces ==
    <<"\"", "\\", "u", "0", "0", "7", "b", "\\", "u", "0", "0", "7", "d", "\"">>

CompletionTexts ==
    {Wrap(w, JsonDumps(o)) : w \in Wrappers, o \in Objects} \cup OtherTexts
        \cup {EscapedText, EscapedBraces}

\* the response envelope with this message content
Envelope(content) ==
    JObj(<<[k |-> K_choices,
            v |-> JArr(<<JObj(<<[k |-> K_message,
                                 v |-> JObj(<<[k |-> K_content, v |-> content]>>)]>>)>>)]>>)

\* what response.json() can be after a successful status
Envelopes ==
    {Envelope(JStr(text)) : text \in CompletionTexts}
    \cup { Envelope(JNull), Envelope(JArr(<<>>)), ObjEmpty,
           JObj(<<[k |-> K_choices, v |-> JArr(<<>>)]>>) }

\* a streamed chunk with this delta
Chunk(delta) ==
    DataPrefix
    \o JsonDumps(JObj(<<[k |-> K_choices,
                         v |-> JArr(<<JObj(<<[k |-> K_delta, v |-> delta]>>)>>)]>>))

ContentDelta(content) == JObj(<<[k |-> K_content, v |-> content]>>)

\* the two halves of a completion sent as two chunks
FirstHalf == SubSeq(JsonDumps(ObjPlain), 1, Len(K_repository_name) + 4)

SecondHalf ==
    SubSeq(JsonDumps(ObjPlain), Len(K_repository_name) + 5, Len(JsonDumps(ObjPlain)))

\* well-formed content-delta lines
GoodLines == {Chunk(ContentDelta(JStr(FirstHalf))), Chunk(ContentDelta(JStr(SecondHalf)))}

\* lines the loop passes over by its own tests
SkippedLines ==
    { <<>>,
      <<":", " ", "p", "i", "n", "g">>,
      DataPrefix \o <<"{", "o", "o", "p", "s">>,
      DataPrefix \o JsonDumps(JObj(<<[k |-> K_choices, v |-> JArr(<<ObjEmpty>>)]>>)) }

\* data lines that parse but are no content-delta fragment
MalformedLines ==
    { DataPrefix \o <<"5">>,
      Chunk(ContentDelta(JNull)) }

StreamLines == GoodLines \cup SkippedLines \cup MalformedLines \cup {DoneLine}

RECURSIVE SeqsUpTo(_, _)
SeqsUpTo(S, n) ==
    IF n = 0 THEN {<<>>}
    ELSE LET shorter == SeqsUpTo(S, n - 1)
         IN  shorter \cup {Append(q, x) : q \in shorter, x \in S}

LineSeqs == SeqsUpTo(StreamLines, MaxLines)

\* the texts an exception may carry: the one of a failed provider call comes
\* from the network, the one of a TypeError, AttributeError or RecursionError
\* varies with the value it was raised on
ExcTexts == {"Connection refused", "Read timed out"}

---------------------------------------------------------------------------
(* The events of the stream *)

StatusEvent(msg) ==
    [type |-> "status", status |-> "generating", message |-> msg,
     error |-> "", code |-> "", data |-> JNull]

DoneEvent(payload) ==
    [type |-> "done", status |-> "", message |-> "",
     error |-> "", code |-> "", data |-> payload]

ErrorEvent(msg, code) ==
    [type |-> "error", status |-> "", message |-> "",
     error |-> msg, code |-> code, data |-> JNull]

\* clean_data without the [:50] and [:200] slices
CleanData_NoSlice(parsed) ==
    Artifact(JStr(Strip(PyStr(DictGet(parsed, K_repository_name)))),
             JStr(Strip(PyStr(DictGet(parsed, K_description)))),
             JStr(Strip(PyStr(DictGet(parsed, K_readme_content)))))

\* clean_data (lines 313-317)
CleanData(parsed) ==
    Artifact(JStr(Prefix(Strip(PyStr(DictGet(parsed, K_repository_name))), NameMax)),
             JStr(Prefix(Strip(PyStr(DictGet(parsed, K_description))), DescriptionMax)),
             JStr(Strip(PyStr(DictGet(parsed, K_readme_content)))))

\* fallback_response with the whole raw output as raw_response
FallbackResponse_WholeRaw(up, full) ==
    JObj(<<[k |-> K_repository_name, v |-> JStr(FallbackName)],
           [k |-> K_description, v |-> JStr(FallbackDescription)],
           [k |-> K_readme_content,
            v |-> JStr(FallbackReadmeHead \o up \o FallbackReadmeTail)],
           [k |-> K_raw_response, v |-> JStr(full)],
           [k |-> K_note, v |-> JStr(FallbackNote)]>>)

\* fallback_response (lines 326-332)
FallbackResponse(up, full) ==
    JObj(<<[k |-> K_repository_name, v |-> JStr(FallbackName)],
           [k |-> K_description, v |-> JStr(FallbackDescription)],
           [k |-> K_readme_content,
            v |-> JStr(FallbackReadmeHead \o up \o FallbackReadmeTail)],
           [k |-> K_raw_response, v |-> JStr(Prefix(full, RawPreviewMax))],
           [k |-> K_note, v |-> JStr(FallbackNote)]>>)

\* parsed_json and all(key in parsed_json for key in [...]) (line 307)
RECURSIVE AllKeysIn(_, _)

\* has is the outcome of the test of the i-th key
NextKeyIn(parsed, i, has) ==
    IF has.exc # "none" THEN Raise(has.exc)
    ELSE IF ~has.v THEN Return(FALSE)
    ELSE AllKeysIn(parsed, i + 1)

AllKeysIn(parsed, i) ==
    IF i > Len(RequiredKeys) THEN Return(TRUE)
    ELSE NextKeyIn(parsed, i, In(RequiredKeys[i], parsed))

IsValidArtifact(parsed) ==
    IF ~Truthy(parsed) THEN Return(FALSE) ELSE AllKeysIn(parsed, 1)

---------------------------------------------------------------------------
(* The request: validation, generate_repo, event_stream *)

Init ==
    /\ pc = "request"
    /\ prompt \in Prompts
    /\ user_prompt = <<>>
    /\ events = <<>>
    /\ calls = <<>>
    /\ first_error = "none"
    /\ stream_lines = <<>>
    /\ full_response = Unset
    /\ parsed_json = Unset
    /\ exc = "none"
    /\ exc_text = ""
    /\ log = <<>>
    /\ fe_pc = "open"
    /\ shown = <<>>
    /\ result = Unset

\* RepoRequest: the length limits of the prompt field, on the prompt as sent
PromptValid(p) == PromptMin <= Len(p) /\ Len(p) <= PromptMax

\* a body that fails validation is answered with a 422, generate_repo not run
RejectRequest ==
    /\ pc = "request"
    /\ ~PromptValid(prompt)
    /\ pc' = "rejected"
    /\ UNCHANGED <<prompt, user_prompt, events, calls, first_error, stream_lines,
                   full_response, parsed_json, exc, exc_text, log,
                   fe_pc, shown, result>>

\* generate_repo up to the start of event_stream (line 258)
generate_repo ==
    /\ pc = "request"
    /\ PromptValid(prompt)
    /\ user_prompt' = Strip(prompt)
    /\ pc' = "start"
    /\ UNCHANGED <<prompt, events, calls, first_error, stream_lines,
                   full_response, parsed_json, exc, exc_text, log,
                   fe_pc, shown, result>>

\* the first provider call issued without the status event before it
YieldGenerating_Skipped ==
    /\ pc = "start"
    /\ pc' = "complete"
    /\ UNCHANGED <<prompt, user_prompt, events, calls, first_error, stream_lines,
                   full_response, parsed_json, exc, exc_text, log,
                   fe_pc, shown, result>>

\* line 287
YieldGenerating ==
    /\ pc = "start"
    /\ events' = Append(events, StatusEvent("Generating repository..."))
    /\ pc' = "complete"
    /\ UNCHANGED <<prompt, user_prompt, calls, first_error, stream_lines,
                   full_response, parsed_json, exc, exc_text, log,
                   fe_pc, shown, result>>

\* response['choices'][0]['message']['content'] (line 292)
MessageContent(message) ==
    IF message.exc # "none" THEN Raise(message.exc)
    ELSE GetItem(message.v, K_content)

FirstMessage(first) ==
    IF first.exc # "none" THEN Raise(first.exc)
    ELSE MessageContent(GetItem(first.v, K_message))

FirstChoice(choices) ==
    IF choices.exc # "none" THEN Raise(choices.exc)
    ELSE FirstMessage(GetFirst(choices.v))

EnvelopeContent(response) == FirstChoice(GetItem(response, K_choices))

\* the buffered call fails in requests.post, raise_for_status or
\* response.json(); the bare except takes it (lines 291, 293)
CompleteRaises ==
    /\ pc = "complete"
    /\ calls' = Append(calls, [mode |-> "complete", after |-> Len(events)])
    /\ \E e \in {"Timeout", "RequestException"} : first_error' = e
    /\ pc' = "fallback"
    /\ UNCHANGED <<prompt, user_prompt, events, stream_lines, full_response,
                   parsed_json, exc, exc_text, log,
                   fe_pc, shown, result>>

\* full_response = ... or the bare except (lines 292-293)
TakeContent(r) ==
    IF r.exc = "none"
    THEN /\ full_response' = r.v
         /\ pc' = "log"
         /\ UNCHANGED first_error
    ELSE /\ first_error' = r.exc
         /\ pc' = "fallback"
         /\ UNCHANGED full_response

\* the buffered call returns an envelope (lines 291-293)
CompleteReturns ==
    /\ pc = "complete"
    /\ calls' = Append(calls, [mode |-> "complete", after |-> Len(events)])
    /\ \E response \in Envelopes : TakeContent(EnvelopeContent(response))
    /\ UNCHANGED <<prompt, user_prompt, events, stream_lines, parsed_json, exc, exc_text, log,
                   fe_pc, shown, result>>

\* the fallback taken without the second status event
YieldProcessing_Skipped ==
    /\ pc = "fallback"
    /\ pc' = "stream"
    /\ UNCHANGED <<prompt, user_prompt, events, calls, first_error, stream_lines,
                   full_response, parsed_json, exc, exc_text, log,
                   fe_pc, shown, result>>

\* line 296
YieldProcessing ==
    /\ pc = "fallback"
    /\ events' = Append(events, StatusEvent("Processing response..."))
    /\ pc' = "stream"
    /\ UNCHANGED <<prompt, user_prompt, calls, first_error, stream_lines,
                   full_response, parsed_json, exc, exc_text, log,
                   fe_pc, shown, result>>

\* the incremental call fails in requests.post or raise_for_status (line 297)
StreamRaises ==
    /\ pc = "stream"
    /\ calls' = Append(calls, [mode |-> "stream", after |-> Len(events)])
    /\ \E e \in {"Timeout", "RequestException"}, text \in ExcTexts :
          exc' = e /\ exc_text' = text
    /\ pc' = "except"
    /\ UNCHANGED <<prompt, user_prompt, events, first_error, stream_lines,
                   full_response, parsed_json, log,
                   fe_pc, shown, result>>

\* full_response = query_groq_stream(...), or its exception (line 297)
TakeStreamed(r) ==
    IF r.exc = "none"
    THEN /\ full_response' = r.v
         /\ pc' = "log"
         /\ UNCHANGED <<exc, exc_text>>
    ELSE /\ exc' = r.exc
         /\ exc_text' \in ExcTexts
         /\ pc' = "except"
         /\ UNCHANGED full_response

\* the incremental call is answered with lines (line 297)
StreamAnswers ==
    /\ pc = "stream"
    /\ calls' = Append(calls, [mode |-> "stream", after |-> Len(events)])
    /\ \E lines \in LineSeqs :
          /\ stream_lines' = lines
          /\ TakeStreamed(query_groq_stream(lines))
    /\ UNCHANGED <<prompt, user_prompt, events, first_error, parsed_json, log,
                   fe_pc, shown, result>>

\* len(full_response) in the log call (lines 299-302)
LogCompleted ==
    /\ pc = "log"
    /\ IF PyLen(full_response).exc = "none"
       THEN pc' = "extract" /\ UNCHANGED <<exc, exc_text>>
       ELSE pc' = "except" /\ exc' = "Exception" /\ exc_text' \in ExcTexts
    /\ UNCHANGED <<prompt, user_prompt, events, calls, first_error, stream_lines,
                   full_response, parsed_json, log,
                   fe_pc, shown, result>>

\* parsed_json = extract_json_from_response(full_response), or its exception
TakeParsed(r) ==
    IF r.exc = "none"
    THEN /\ parsed_json' = r.v
         /\ pc' = "validate"
         /\ UNCHANGED <<exc, exc_text>>
    ELSE /\ exc' = r.exc
         /\ exc_text' \in ExcTexts
         /\ pc' = "except"
         /\ UNCHANGED parsed_json

\* line 305
ExtractJson ==
    /\ pc = "extract"
    /\ TakeParsed(extract_json_from_response(full_response))
    /\ UNCHANGED <<prompt, user_prompt, events, calls, first_error, stream_lines,
                   full_response, log,
                   fe_pc, shown, result>>

\* lines 307-333, valid being the outcome of the test of line 307: the cleaned
\* artifact, the fallback, or an exception of the test or of parsed_json.get
YieldArtifact(valid) ==
    IF valid.exc # "none"
    THEN exc' = valid.exc /\ exc_text' \in ExcTexts /\ pc' = "except" /\ UNCHANGED events
    ELSE IF valid.v /\ parsed_json.t # "obj"
    THEN exc' = "Exception" /\ exc_text' \in ExcTexts /\ pc' = "except" /\ UNCHANGED events
    ELSE IF valid.v
    THEN /\ events' = Append(events, DoneEvent(CleanData(parsed_json)))
         /\ pc' = "closed"
         /\ UNCHANGED <<exc, exc_text>>
    ELSE /\ events' = Append(events,
                 DoneEvent(FallbackResponse(user_prompt, full_response.s)))
         /\ pc' = "closed"
         /\ UNCHANGED <<exc, exc_text>>

YieldDone ==
    /\ pc = "validate"
    /\ YieldArtifact(IsValidArtifact(parsed_json))
    /\ UNCHANGED <<prompt, user_prompt, calls, first_error, stream_lines,
                   full_response, parsed_json, log,
                   fe_pc, shown, result>>

\* the logger.error call of each except clause (lines 336, 339, 342-345): the
\* text of the exception goes to the log, except for a timeout
ErrorLogFor(e, text) ==
    IF e = "Timeout" THEN [event |-> "groq_api_timeout", error |-> ""]
    ELSE IF e = "RequestException" THEN [event |-> "groq_api_error", error |-> text]
    ELSE [event |-> "unexpected_error", error |-> text]

\* the except clauses of event_stream, in their order (lines 335-346)
ErrorEventFor(e) ==
    IF e = "Timeout"
    THEN ErrorEvent("Request timeout - please try again", "TIMEOUT")
    ELSE IF e = "RequestException"
    THEN ErrorEvent("AI service temporarily unavailable", "API_ERROR")
    ELSE ErrorEvent("Internal server error", "INTERNAL_ERROR")

\* event_stream without the last except clause: any other exception ends the
\* stream with no event
YieldError_NoCatchAll ==
    /\ pc = "except"
    /\ events' = IF exc \in {"Timeout", "RequestException"}
                 THEN Append(events, ErrorEvent("Request timeout - please try again",
                                                "TIMEOUT"))
                 ELSE events
    /\ pc' = "closed"
    /\ UNCHANGED <<prompt, user_prompt, calls, first_error, stream_lines,
                   full_response, parsed_json, exc, exc_text, log,
                   fe_pc, shown, result>>

\* the except clauses taking a timeout of the buffered call for the exception
YieldError_TimeoutAnywhere ==
    /\ pc = "except"
    /\ log' = Append(log, ErrorLogFor(exc, exc_text))
    /\ events' = Append(events, ErrorEventFor(IF first_error = "Timeout"
                                              THEN "Timeout" ELSE exc))
    /\ pc' = "closed"
    /\ UNCHANGED <<prompt, user_prompt, calls, first_error, stream_lines,
                   full_response, parsed_json, exc, exc_text,
                   fe_pc, shown, result>>

\* the except clause that takes the exception with its text in the payload
YieldError_LeakText ==
    /\ pc = "except"
    /\ log' = Append(log, ErrorLogFor(exc, exc_text))
    /\ events' = Append(events, ErrorEvent(exc_text, ErrorEventFor(exc).code))
    /\ pc' = "closed"
    /\ UNCHANGED <<prompt, user_prompt, calls, first_error, stream_lines,
                   full_response, parsed_json, exc, exc_text,
                   fe_pc, shown, result>>

\* the except clause that takes the exception: its logger.error call, then
\* its yield (lines 335-346)
YieldError ==
    /\ pc = "except"
    /\ log' = Append(log, ErrorLogFor(exc, exc_text))
    /\ events' = Append(events, ErrorEventFor(exc))
    /\ pc' = "closed"
    /\ UNCHANGED <<prompt, user_prompt, calls, first_error, stream_lines,
                   full_response, parsed_json, exc, exc_text,
                   fe_pc, shown, result>>

---------------------------------------------------------------------------
(* The response body and the frontend (src/frontend/frontend.py)           *)

K_status == <<"s", "t", "a", "t", "u", "s">>

\* the lines of the yields of event_stream, as iter_lines splits them
EventDoneLine == <<"e", "v", "e", "n", "t", ":", " ", "d", "o", "n", "e">>

EventErrorLine ==
    <<"e", "v", "e", "n", "t", ":", " ", "e", "r", "r", "o", "r">>

GeneratingLine ==
    <<"d", "a", "t", "a", ":", " ", "{", "\"", "s", "t", "a", "t", "u", "s",
      "\"", ":", " ", "\"", "g", "e", "n", "e", "r", "a", "t", "i", "n", "g",
      "\"", ",", " ", "\"", "m", "e", "s", "s", "a", "g", "e", "\"", ":",
      " ", "\"", "U+1F916", " ", "G", "e", "n", "e", "r", "a", "t", "i", "n",
      "g", " ", "r", "e", "p", "o", "s", "i", "t", "o", "r", "y", ".", ".",
      ".", "\"", "}">>

ProcessingLine ==
    <<"d", "a", "t", "a", ":", " ", "{", "\"", "s", "t", "a", "t", "u", "s",
      "\"", ":", " ", "\"", "g", "e", "n", "e", "r", "a", "t", "i", "n", "g",
      "\"", ",", " ", "\"", "m", "e", "s", "s", "a", "g", "e", "\"", ":",
      " ", "\"", "U+1F4DD", " ", "P", "r", "o", "c", "e", "s", "s", "i", "n",
      "g", " ", "r", "e", "s", "p", "o", "n", "s", "e", ".", ".", ".", "\"",
      "}">>

TimeoutLine ==
    <<"d", "a", "t", "a", ":", " ", "{", "\"", "e", "r", "r", "o", "r", "\"",
      ":", " ", "\"", "R", "e", "q", "u", "e", "s", "t", " ", "t", "i", "m",
      "e", "o", "u", "t", " ", "-", " ", "p", "l", "e", "a", "s", "e", " ",
      "t", "r", "y", " ", "a", "g", "a", "i", "n", "\"", ",", " ", "\"", "c",
      "o", "d", "e", "\"", ":", " ", "\"", "T", "I", "M", "E", "O", "U", "T",
      "\"", "}">>

ApiErrorLine ==
    <<"d", "a", "t", "a", ":", " ", "{", "\"", "e", "r", "r", "o", "r", "\"",
      ":", " ", "\"", "A", "I", " ", "s", "e", "r", "v", "i", "c", "e", " ",
      "t", "e", "m", "p", "o", "r", "a", "r", "i", "l", "y", " ", "u", "n",
      "a", "v", "a", "i", "l", "a", "b", "l", "e", "\"", ",", " ", "\"", "c",
      "o", "d", "e", "\"", ":", " ", "\"", "A", "P", "I", "_", "E", "R", "R",
      "O", "R", "\"", "}">>

InternalErrorLine ==
    <<"d", "a", "t", "a", ":", " ", "{", "\"", "e", "r", "r", "o", "r", "\"",
      ":", " ", "\"", "I", "n", "t", "e", "r", "n", "a", "l", " ", "s", "e",
      "r", "v", "e", "r", " ", "e", "r", "r", "o", "r", "\"", ",", " ", "\"",
      "c", "o", "d", "e", "\"", ":", " ", "\"", "I", "N", "T", "E", "R", "N",
      "A", "L", "_", "E", "R", "R", "O", "R", "\"", "}">>

\* json.dumps with ensure_ascii (line 333): the text of JsonDumps with each
\* character outside ASCII written as its \u escapes
EnsureAscii(text) == Replace(text, <<"U+1F680">>, RocketEscape)

\* the lines of one event: a status line, or the event line and the data
\* line, then the empty line that ends the event
EventLines(e) ==
    CASE e.type = "status" ->
           <<IF e.message = "Generating repository..."
             THEN GeneratingLine ELSE ProcessingLine, <<>>>>
      [] e.type = "done" ->
           <<EventDoneLine,
             DataPrefix \o (IF HasKey(e.data, K_note)
                            THEN EnsureAscii(JsonDumps(e.data))
                            ELSE JsonDumps(e.data)),
             <<>>>>
      [] e.type = "error" ->
           <<EventErrorLine,
             CASE e.code = "TIMEOUT" -> TimeoutLine
               [] e.code = "API_ERROR" -> ApiErrorLine
               [] OTHER -> InternalErrorLine,
             <<>>>>

\* the lines of the body sent so far
RECURSIVE Wire(_)
Wire(evs) == IF evs = <<>> THEN <<>> ELSE EventLines(Head(evs)) \o Wire(Tail(evs))

\* the loop body of stream_response on one line (frontend.py lines 233-243):
\* [act, v], act one of "skip", "info" (v displayed), "return" (v returned)
\* and "raise"
FeSkip == [act |-> "skip", v |-> JNull]

FeRaise == [act |-> "raise", v |-> JNull]

\* st.info of line 239, message being data['message']
FeShow(message) ==
    IF message.exc # "none" THEN FeRaise
    ELSE [act |-> "info", v |-> JStr(<<"U+1F916", " ">> \o PyStr(message.v))]

\* the payload of any data line without a status returned
FeTestName_AnyData(data, has_name) ==
    IF has_name.exc # "none" THEN FeRaise ELSE [act |-> "return", v |-> data]

\* line 240, has_name being 'repository_name' in data
FeTestName(data, has_name) ==
    IF has_name.exc # "none" THEN FeRaise
    ELSE IF has_name.v THEN [act |-> "return", v |-> data]
    ELSE FeSkip

\* line 238, has_status being 'status' in data
FeTestStatus(data, has_status) ==
    IF has_status.exc # "none" THEN FeRaise
    ELSE IF has_status.v THEN FeShow(GetItem(data, K_message))
    ELSE FeTestName(data, In(K_repository_name, data))

\* lines 236-243, data being the result of json.loads(line_str[6:])
FeTakeData(data) ==
    IF ~data.ok /\ data.err = "JSONDecodeError" THEN FeSkip
    ELSE IF ~data.ok THEN FeRaise
    ELSE FeTestStatus(data.v, In(K_status, data.v))

FeLine(line) ==
    IF line = <<>> THEN FeSkip
    ELSE IF ~StartsWith(line, DataPrefix) THEN FeSkip
    ELSE FeTakeData(JsonLoads(SubSeq(line, Len(DataPrefix) + 1, Len(line))))

\* the loop of lines 233-243 from line i on, shown being what was displayed:
\* [shown, result], result the value returned, None at the end of the body
\* (line 245) and after an exception (lines 250-252)
RECURSIVE FeLoop(_, _, _)

\* r is the outcome of the iteration on lines[i]
FeStep(lines, i, shown_, r) ==
    CASE r.act = "skip" -> FeLoop(lines, i + 1, shown_)
      [] r.act = "info" ->
           FeLoop(lines, i + 1, Append(shown_, [kind |-> "info", text |-> r.v.s]))
      [] r.act = "return" -> [shown |-> shown_, result |-> r.v]
      [] r.act = "raise" ->
           [shown |-> Append(shown_, [kind |-> "error", text |-> <<>>]),
            result |-> JNull]

FeLoop(lines, i, shown_) ==
    IF i > Len(lines) THEN [shown |-> shown_, result |-> JNull]
    ELSE FeStep(lines, i, shown_, FeLine(lines[i]))

\* what stream_response displays and returns on a response body of these
\* lines (lines 232-245)
stream_response(lines) == FeLoop(lines, 1, <<>>)

\* r is the outcome of stream_response
FeReturn(r) ==
    /\ shown' = r.shown
    /\ result' = r.result
    /\ fe_pc' = "returned"

\* stream_response on the body of an accepted request.  The frontend only
\* reads, so its iterations commute with the steps of event_stream: the call
\* is one step, taken on the complete body.
StreamResponse ==
    /\ fe_pc = "open"
    /\ pc = "closed"
    /\ FeReturn(stream_response(Wire(events)))
    /\ UNCHANGED <<pc, prompt, user_prompt, events, calls, first_error, stream_lines,
                   full_response, parsed_json, exc, exc_text, log>>

\* the request was rejected: raise_for_status raises, the except clause of
\* line 247 displays the error (lines 229, 247-249)
FeRaiseForStatus ==
    /\ fe_pc = "open"
    /\ pc = "rejected"
    /\ shown' = <<[kind |-> "error", text |-> <<>>]>>
    /\ result' = JNull
    /\ fe_pc' = "returned"
    /\ UNCHANGED <<pc, prompt, user_prompt, events, calls, first_error, stream_lines,
                   full_response, parsed_json, exc, exc_text, log>>

Next ==
    \/ RejectRequest
    \/ generate_repo
    \/ YieldGenerating
    \/ CompleteRaises
    \/ CompleteReturns
    \/ YieldProcessing
    \/ StreamRaises
    \/ StreamAnswers
    \/ LogCompleted
    \/ ExtractJson
    \/ YieldDone
    \/ YieldError
    \/ StreamResponse
    \/ FeRaiseForStatus

Spec == Init /\ [][Next]_vars

---------------------------------------------------------------------------
(* Properties *)

Terminal(e) == e.type \in {"done", "error"}

LastEvent == events[Len(events)]

\* the done event carries the fallback artifact / the cleaned artifact
IsFallback(e) == e.type = "done" /\ HasKey(e.data, K_note)

IsCleaned(e) == e.type = "done" /\ ~HasKey(e.data, K_note)

\* C1: the events of a call are one or more status events followed by exactly
\* one terminal event (done or error); nothing is emitted after the terminal
\* event, and the stream does not end without one: every exception that
\* propagates is of a class an except clause of event_stream takes.
C1_OneTerminalEvent ==
    /\ \A i \in 1..Len(events) :
          IF Terminal(events[i])
          THEN i = Len(events) /\ i > 1 /\ pc = "closed"
          ELSE events[i].type = "status"
    /\ pc = "closed" => Len(events) >= 2 /\ Terminal(LastEvent)
    /\ pc = "except" => exc \in {"Timeout", "RequestException", "Exception"}
    /\ pc \in {"request", "rejected", "start", "complete", "fallback", "stream",
              "log", "extract", "validate", "except", "closed"}

C1_Witness ==
    /\ pc = "closed"
    /\ Len(events) = 3
    /\ events[1].type = "status" /\ events[2].type = "status"
    /\ events[3].type = "error"

\* C2: whenever a completion was returned, the terminal event is a done event
\* (never an error event): the cleaned artifact if the extracted value is an
\* object holding the three required keys, the fallback artifact otherwise.
C2_CompletionGivesDone ==
    (pc = "closed" /\ full_response.t # "unset") =>
        /\ LastEvent.type = "done"
        /\ IF parsed_json.t = "obj"
              /\ \A i \in 1..Len(RequiredKeys) : HasKey(parsed_json, RequiredKeys[i])
           THEN IsCleaned(LastEvent)
           ELSE IsFallback(LastEvent)

\* C3: when a provider call of the request timed out and no completion was
\* obtained from either mode, the terminal event is the TIMEOUT error.
C3_TimeoutAnywhere ==
    (/\ pc = "closed"
     /\ full_response.t = "unset"
     /\ (first_error = "Timeout" \/ exc = "Timeout")) =>
        LastEvent.type = "error" /\ LastEvent.code = "TIMEOUT"

\* the parse attempts of extract_json_from_response on a response text
SpanOf(text) == BraceSpan(StripFences(Strip(text)))

BraceAttemptOk(text) == SpanOf(text) # <<>> /\ JsonLoads(SpanOf(text)).ok

RepairAttemptOk(text) == SpanOf(text) # <<>> /\ JsonLoads(RepairSpan(SpanOf(text))).ok

DirectAttempt(text) == JsonLoads(StripFences(Strip(text)))

\* extract_json_from_response was called on a str and the call is over
ExtractedFromText ==
    full_response.t = "str" /\ pc \in {"validate", "closed", "except"}

\* C4: extract_json_from_response never raises on a string, and it returns
\* null exactly when every parse attempt has failed.
C4_NullIffAllFailed ==
    ExtractedFromText =>
        /\ parsed_json.t # "unset"
        /\ parsed_json = JNull <=>
              /\ ~BraceAttemptOk(full_response.s)
              /\ ~RepairAttemptOk(full_response.s)
              /\ ~DirectAttempt(full_response.s).ok

\* C5: a model output that is a valid JSON object, optionally inside a
\* markdown fence and whitespace, is extracted as exactly that object, also
\* when a string value of the object holds fence delimiters or braces.
C5_RecoversObject ==
    \A o \in Objects, w \in FenceWrappers :
        (ExtractedFromText /\ full_response.s = Wrap(w, JsonDumps(o))) =>
            parsed_json = o

\* the lines the claim calls well-formed or skipped by the loop's own tests
NotMalformed(line) == line \notin MalformedLines

\* query_groq_stream was answered with lines and is over
StreamAnswered == Len(calls) = 2 /\ pc # "stream" /\ exc \notin {"Timeout", "RequestException"}

\* C6: a line that is no well-formed content-delta fragment is skipped, and
\* query_groq_stream returns what the other lines accumulate.
C6_MalformedSkipped ==
    StreamAnswered =>
        /\ full_response.t = "str"
        /\ full_response = query_groq_stream(SelectSeq(stream_lines, NotMalformed)).v

\* C7: the Orchestrator runs only for prompts whose length after trimming is
\* between 5 and 500; any other request is rejected before any event and any
\* provider call.
C7_TrimmedLengthChecked ==
    /\ pc \notin {"request", "rejected"} =>
           PromptMin <= Len(Strip(prompt)) /\ Len(Strip(prompt)) <= PromptMax
    /\ pc = "rejected" => events = <<>> /\ calls = <<>>

\* C8: the first event of every call is the "generating" status event, and it
\* is emitted before the first provider call is issued.
C8_StatusFirst ==
    /\ events # <<>> => events[1] = StatusEvent("Generating repository...")
    /\ \A i \in 1..Len(calls) : calls[i].after >= 1
    /\ pc = "closed" => events # <<>>

C8_Witness ==
    /\ Len(calls) = 1
    /\ calls[1].mode = "complete"
    /\ events = <<StatusEvent("Generating repository...")>>

\* C9: a done event with a cleaned artifact holds repository_name,
\* description and readme_content, the name of at most 50 and the description
\* of at most 200 characters, whatever the values of the parsed object.
C9_CleanedWithinCeilings ==
    \A i \in 1..Len(events) :
        IsCleaned(events[i]) =>
            /\ \A j \in 1..Len(RequiredKeys) :
                  /\ HasKey(events[i].data, RequiredKeys[j])
                  /\ DictGet(events[i].data, RequiredKeys[j]).t = "str"
            /\ Len(DictGet(events[i].data, K_repository_name).s) <= NameMax
            /\ Len(DictGet(events[i].data, K_description).s) <= DescriptionMax

\* a name and a description over their ceilings were cut to them
C9_Witness ==
    /\ pc = "closed"
    /\ IsCleaned(LastEvent)
    /\ Len(DictGet(parsed_json, K_repository_name).s) > NameMax
    /\ Len(DictGet(parsed_json, K_description).s) > DescriptionMax
    /\ Len(DictGet(LastEvent.data, K_repository_name).s) = NameMax
    /\ Len(DictGet(LastEvent.data, K_description).s) = DescriptionMax

\* C10: a fallback artifact has a non-empty repository_name, description and
\* readme_content, its readme_content holds the trimmed prompt, its note is
\* non-empty, and its raw_response is the first 500 characters (at most) of
\* the raw model output.
C10_FallbackShape ==
    \A i \in 1..Len(events) :
        IsFallback(events[i]) =>
            /\ \A key \in {K_repository_name, K_description, K_readme_content,
                           K_note, K_raw_response} :
                  HasKey(events[i].data, key) /\ DictGet(events[i].data, key).t = "str"
            /\ \A key \in {K_repository_name, K_description, K_readme_content, K_note} :
                  Len(DictGet(events[i].data, key).s) > 0
            /\ IsSubstring(user_prompt, DictGet(events[i].data, K_readme_content).s)
            /\ LET raw == DictGet(events[i].data, K_raw_response).s
               IN  /\ Len(raw) <= RawPreviewMax
                   /\ Len(raw) = Len(full_response.s) \/ Len(raw) = RawPreviewMax
                   /\ Len(raw) <= Len(full_response.s)
                   /\ \A c \in 1..Len(raw) : raw[c] = full_response.s[c]

\* a raw output over 500 characters was cut, for a prompt that was trimmed
C10_Witness ==
    /\ pc = "closed"
    /\ IsFallback(LastEvent)
    /\ Len(full_response.s) > RawPreviewMax
    /\ Len(DictGet(LastEvent.data, K_raw_response).s) = RawPreviewMax
    /\ Len(user_prompt) >= PromptMin
    /\ Len(user_prompt) < Len(prompt)

\* the events of a call that fails with an exception of class e: the status
\* events, the second when the fallback was taken, and the payload of e
ErrorRun(fallback, e) ==
    <<[type |-> "status", status |-> "generating",
       message |-> "Generating repository...", error |-> "", code |-> "",
       data |-> JNull]>>
    \o (IF fallback
        THEN <<[type |-> "status", status |-> "generating",
                message |-> "Processing response...", error |-> "", code |-> "",
                data |-> JNull]>>
        ELSE <<>>)
    \o <<[type |-> "error", status |-> "", message |-> "", data |-> JNull,
          error |-> CASE e = "Timeout" -> "Request timeout - please try again"
                      [] e = "RequestException" -> "AI service temporarily unavailable"
                      [] OTHER -> "Internal server error",
          code |-> CASE e = "Timeout" -> "TIMEOUT"
                     [] e = "RequestException" -> "API_ERROR"
                     [] OTHER -> "INTERNAL_ERROR"]>>

\* C11: the events of a call that ends with an error event are a function of
\* the class of the exception (and of whether the fallback was taken), never
\* of its text: two runs that differ in the text only emit the same events;
\* the payload is one of three fixed (error, code) pairs.
C11_ErrorPayloadFixed ==
    /\ \A i \in 1..Len(events) :
          events[i].type = "error" =>
              <<events[i].error, events[i].code>> \in
                  { <<"Request timeout - please try again", "TIMEOUT">>,
                    <<"AI service temporarily unavailable", "API_ERROR">>,
                    <<"Internal server error", "INTERNAL_ERROR">> }
    /\ (pc = "closed" /\ LastEvent.type = "error") =>
           events = ErrorRun(Len(calls) = 2, exc)

\* a request error whose text went to the log and not into the payload
C11_Witness ==
    /\ pc = "closed"
    /\ LastEvent.code = "API_ERROR"
    /\ exc_text = "Read timed out"
    /\ log = <<[event |-> "groq_api_error", error |-> "Read timed out"]>>
    /\ LastEvent.error # exc_text

SecondStatus == Len(events) >= 2 /\ events[2].type = "status"

\* C13: a request makes at most two provider calls, the buffered call first
\* and the incremental call only after the buffered attempt has failed; the
\* second status event is emitted exactly when the fallback is taken, after
\* the failure and before the incremental call, which is made once.
C13_TwoCallsInSequence ==
    /\ Len(calls) <= 2
    /\ \A i \in 1..Len(calls) : (calls[i].mode = "complete") <=> (i = 1)
    /\ \A i \in 1..Len(calls) : calls[i].mode \in {"complete", "stream"}
    /\ \A i \in 1..Len(calls) : calls[i].after = i
    /\ \A i \in 1..Len(events) : events[i].type = "status" => i <= 2
    /\ first_error # "none" => Len(calls) >= 1
    /\ SecondStatus <=> (first_error # "none" /\ pc # "fallback")
    /\ SecondStatus => events[2] = StatusEvent("Processing response...")
    /\ Len(calls) = 2 => SecondStatus
    /\ (first_error # "none" /\ pc \notin {"fallback", "stream"}) => Len(calls) = 2

\* the fallback taken after a malformed envelope, the incremental call made
C13_Witness ==
    /\ first_error \notin {"none", "Timeout", "RequestException"}
    /\ Len(calls) = 2
    /\ calls[2] = [mode |-> "stream", after |-> 2]
    /\ SecondStatus
    /\ pc = "closed"

\* the content delta of a well-formed data line; nothing for any other line
DeltaOf(line) ==
    CASE line = Chunk(ContentDelta(JStr(FirstHalf))) -> FirstHalf
      [] line = Chunk(ContentDelta(JStr(SecondHalf))) -> SecondHalf
      [] OTHER -> <<>>

\* the lines received before the first terminator line, all when there is none
BeforeTerminator(lines) ==
    LET done == {i \in 1..Len(lines) : lines[i] = DoneLine}
    IN  IF done = {} THEN lines
        ELSE SubSeq(lines, 1, (CHOOSE i \in done : \A j \in done : i <= j) - 1)

RECURSIVE ConcatDeltas(_)
ConcatDeltas(lines) ==
    IF lines = <<>> THEN <<>> ELSE DeltaOf(Head(lines)) \o ConcatDeltas(Tail(lines))

\* C14: query_groq_stream returns the content deltas of the well-formed data
\* lines received before the first terminator line (before the end of the
\* lines when there is none), concatenated in arrival order; empty lines,
\* lines without the data prefix and lines after the terminator add nothing.
\* (Lines that parse but are no content-delta fragment are the matter of C6:
\* the call raises on them.)
C14_ConcatBeforeTerminator ==
    StreamAnswered =>
        \/ \E i \in 1..Len(BeforeTerminator(stream_lines)) :
               BeforeTerminator(stream_lines)[i] \in MalformedLines
        \/ full_response = JStr(ConcatDeltas(BeforeTerminator(stream_lines)))

\* a fragment received after the terminator was left out
C14_Witness ==
    /\ StreamAnswered
    /\ Len(stream_lines) = 2
    /\ stream_lines[1] = DoneLine
    /\ stream_lines[2] \in GoodLines
    /\ full_response = JStr(<<>>)
    /\ pc = "closed"

\* C15: an error event with code TIMEOUT or API_ERROR is emitted only when the
\* buffered call failed, the second status event was emitted and the
\* incremental call itself failed, with a timeout for TIMEOUT and with another
\* request error for API_ERROR; how the buffered call failed does not decide
\* the code.
C15_RequestErrorsFromStream ==
    /\ exc \in {"Timeout", "RequestException"} =>
           /\ Len(calls) = 2 /\ calls[2].mode = "stream"
           /\ pc \in {"except", "closed"}
           /\ first_error # "none"
           /\ full_response = Unset
    /\ \A i \in 1..Len(events) :
          (events[i].type = "error" /\ events[i].code \in {"TIMEOUT", "API_ERROR"}) =>
              /\ first_error # "none"
              /\ i = 3 /\ events[2] = StatusEvent("Processing response...")
              /\ Len(calls) = 2 /\ calls[2].mode = "stream"
              /\ (events[i].code = "TIMEOUT") <=> (exc = "Timeout")
              /\ (events[i].code = "API_ERROR") <=> (exc = "RequestException")

\* the buffered call timed out, the incremental call failed otherwise
C15_Witness ==
    /\ pc = "closed"
    /\ first_error = "Timeout"
    /\ exc = "RequestException"
    /\ LastEvent.type = "error"
    /\ LastEvent.code = "API_ERROR"

\* what st.info displays for the two status events
ShownGenerating ==
    <<"U+1F916", " ", "U+1F916", " ", "G", "e", "n", "e", "r", "a", "t", "i",
      "n", "g", " ", "r", "e", "p", "o", "s", "i", "t", "o", "r", "y", ".",
      ".", ".">>

ShownProcessing ==
    <<"U+1F916", " ", "U+1F4DD", " ", "P", "r", "o", "c", "e", "s", "s", "i",
      "n", "g", " ", "r", "e", "s", "p", "o", "n", "s", "e", ".", ".", ".">>

\* the status events among the first n events
StatusCount(n) == Cardinality({i \in 1..n : events[i].type = "status"})

\* C16: on the body of a call of event_stream, stream_response returns the
\* payload of the terminal event if and only if that event is a done event
\* (cleaned or fallback artifact); for an error event it returns None and
\* displays neither the code nor the message; every status event has been
\* displayed, in order, when it returns.
C16_FrontendReturnsArtifact ==
    (fe_pc = "returned" /\ pc = "closed") =>
        /\ LastEvent.type = "done" => result = LastEvent.data
        /\ LastEvent.type = "error" => result = JNull
        /\ (result # JNull) <=> (LastEvent.type = "done")
        /\ Len(shown) = StatusCount(Len(events))
        /\ \A i \in 1..Len(shown) :
              /\ events[i].type = "status"
              /\ shown[i].kind = "info"
              /\ shown[i].text = IF events[i].message = "Generating repository..."
                                 THEN ShownGenerating ELSE ShownProcessing

\* the fallback artifact returned after the two status events were displayed
C16_Witness ==
    /\ fe_pc = "returned"
    /\ pc = "closed"
    /\ IsFallback(LastEvent)
    /\ result = LastEvent.data
    /\ Len(shown) = 2
    /\ shown[2].text = ShownProcessing

====
